---- MODULE Spec2Model ----
\* Model of src/main.py: the Notion translation batch (get_all_pages,
\* get_pages_to_translate, translate_text, translate_block, translate_page,
\* translate_all_pages_to_translate, translate_specific_pages).
\* One batch (one asyncio.run) is modelled step by step: every awaited call to
\* the document store is one action, which also performs the local computation
\* that follows it up to the next awaited call. A call to the translation
\* provider goes through the thread pool: it is submitted when the batch
\* reaches the await, taken by a worker, ended in the worker, and only then is
\* the batch resumed with its result.
EXTENDS Integers, Sequences, FiniteSets, TLC

\* ---------------------------------------------------------------- bounds
MaxDocs == 2        \* documents in the database
MaxIds == 2         \* length of the page_ids list of a manual request
MaxFailures == 2    \* failing store/provider calls injected in one batch

\* ------------------------------------------------- Python values and text
\* Python's None (a value distinct from every dict of the model).
None == [py_none |-> TRUE]
\* The empty dict {} used as the default of dict.get.
EmptyDict == [py_empty |-> TRUE]

\* Texts are sequences of characters.
RECURSIVE Join(_)
\* ''.join(list of texts)
Join(texts) ==
    IF texts = <<>> THEN <<>> ELSE Head(texts) \o Join(Tail(texts))

\* translator.translate_text(text, source_lang, target_lang).text as produced by
\* the (external) provider: a text that depends on the whole input and on the
\* target language, and is never the input itself.
ProviderText(text, from_lang, to_lang) == <<to_lang>> \o text

LANGUAGE_NAMES == [fr |-> "Français", nl |-> "Nederlands"]

\* LANGUAGE_NAMES.get(to_lang, to_lang)
LanguageName(to_lang) ==
    IF to_lang \in DOMAIN LANGUAGE_NAMES THEN LANGUAGE_NAMES[to_lang] ELSE to_lang

\* dict.get(key, default): the default is used only when the key is absent.
DictGet(d, key, default) == IF key \in DOMAIN d THEN d[key] ELSE default

\* ------------------------------------------------------ extract_database_id
\* A locator is the sequence of its characters.
ID_LEN == 32

\* the character class [a-f0-9]
HexChars == {"a", "b", "c", "d", "e", "f",
             "0", "1", "2", "3", "4", "5", "6", "7", "8", "9"}

\* (variant: the class also has the uppercase digits)
IsHexAnyCase(c) == c \in HexChars \cup {"A", "B", "C", "D", "E", "F"}

IsHex(c) == c \in HexChars

\* [a-f0-9]{32} matches at position p
MatchAt(url, p) ==
    /\ p + ID_LEN - 1 <= Len(url)
    /\ \A i \in 0..(ID_LEN - 1) : IsHex(url[p + i])

\* (variant: the search returns the last match)
RECURSIVE SearchLast(_, _)
SearchLast(url, p) ==
    IF p + ID_LEN - 1 > Len(url) THEN 0
    ELSE LET q == SearchLast(url, p + 1)
         IN  IF q # 0 THEN q ELSE IF MatchAt(url, p) THEN p ELSE 0

RECURSIVE Search(_, _)
\* re.search: the first position >= p where the pattern matches, 0 when none
Search(url, p) ==
    IF p + ID_LEN - 1 > Len(url) THEN 0
    ELSE IF MatchAt(url, p) THEN p
    ELSE Search(url, p + 1)

INVALID_URL ==
    "URL Notion invalide. Assurez-vous qu'elle contient un ID de base de données valide."

\* match.group(1), or the ValueError
extract_database_id(url) ==
    LET p == Search(url, 1)
    IN  IF p # 0
        THEN [raises |-> FALSE, id |-> SubSeq(url, p, p + ID_LEN - 1)]
        ELSE [raises |-> TRUE, msg |-> INVALID_URL]

\* n times the character c
Rep(c, n) == [i \in 1..n |-> c]

\* Locators given to automatic requests: one with an id, and three without
\* (empty, a hex run one character short, 32 uppercase hex digits).
RequestLocators ==
    { <<"/">> \o Rep("a", ID_LEN - 1) \o <<"7">> \o <<"?">>,
      <<>>,
      <<"/">> \o Rep("a", ID_LEN - 1),
      Rep("A", ID_LEN) }

\* ------------------------------------------------------- the document store
DocIds == 1..MaxDocs

Run(kind, content) == [type |-> kind, content |-> content]
TextBlock(id, kind, runs) == [id |-> id, type |-> kind, rich_text |-> runs]
OpaqueBlock(id, kind) == [id |-> id, type |-> kind]

TitleProp(texts) ==
    [type |-> "title", title |-> [i \in 1..Len(texts) |-> [plain_text |-> texts[i]]]]
RichTextProp(texts) ==
    [type |-> "rich_text",
     rich_text |-> [i \in 1..Len(texts) |-> [plain_text |-> texts[i]]]]

\* No Statut property at all on the page.
NoStatut == [absent |-> TRUE]

\* The shapes the Statut property of document d can have when the batch starts:
\* a status with a name, a status without value (null), or no Statut property.
\* Documents after the second are pending ones.
StatutChoices(d) ==
    IF d = 1
    THEN { [type |-> "status", status |-> [name |-> "A traduire"]],
           [type |-> "status", status |-> [name |-> "Traduit"]],
           [type |-> "status", status |-> None] }
    ELSE IF d = 2
    THEN { [type |-> "status", status |-> [name |-> "A traduire"]],
           NoStatut }
    ELSE { [type |-> "status", status |-> [name |-> "A traduire"]] }

\* Content of document d when the batch starts: document 1 carries
\* translatable properties and blocks, the others carry none (a code block has
\* rich text but its kind is not one translate_block handles).
InitialBlocks(d) ==
    IF d = 1
    THEN << TextBlock(10 * d + 1, "paragraph",
                      << Run("text", <<"a">>), Run("mention", <<"m">>),
                         Run("text", <<"b">>) >>),
            OpaqueBlock(10 * d + 2, "image"),
            TextBlock(10 * d + 3, "heading_1", <<>>),
            TextBlock(10 * d + 4, "quote", << Run("text", <<"e">>) >>) >>
    ELSE << TextBlock(10 * d + 1, "code", << Run("text", <<"x">>) >>) >>

InitialContentProps(d) ==
    IF d = 1
    THEN [Name |-> TitleProp(<< <<"a">>, <<"b">> >>),
          Desc |-> RichTextProp(<< <<"c">>, <<"d">> >>)]
    ELSE [Name |-> TitleProp(<<>>),
          Desc |-> [type |-> "number", number |-> 7]]

InitialProperties(d, statut) ==
    IF statut = NoStatut
    THEN InitialContentProps(d)
    ELSE ("Statut" :> statut) @@ InitialContentProps(d)

\* The orders in which the store's answer can list the properties of
\* document d (the key order of page['properties']).
KeyOrders(d, statut) ==
    IF statut = NoStatut
    THEN { <<"Name", "Desc">> }
    ELSE IF d = 1 /\ statut = [type |-> "status", status |-> [name |-> "Traduit"]]
    THEN { <<"Statut", "Desc", "Name">> }
    ELSE { <<"Name", "Desc", "Statut">> }

\* The shapes of document d when the batch starts.
DocShapes(d) ==
    UNION { { [statut |-> s, keys |-> k] : k \in KeyOrders(d, s) }
            : s \in StatutChoices(d) }

InitialStores ==
    { [d \in DocIds |->
          [properties |-> InitialProperties(d, c[d].statut),
           keys |-> c[d].keys,
           blocks |-> InitialBlocks(d)]]
      : c \in { f \in [DocIds -> UNION {DocShapes(d) : d \in DocIds}] :
                  \A d \in DocIds : f[d] \in DocShapes(d) } }

\* Messages str(e) of the exceptions the store and the provider can raise
\* (an exception built without arguments has the empty message).
ErrorMessages == {"", "boom"}

TargetLanguages == {"nl", "de"}

\* page_ids lists of a manual request (the entry points refuse an empty list).
IdLists == UNION { [1..n -> DocIds] : n \in 1..MaxIds }

VARIABLES
    store,               \* the Notion database: DocIds -> [properties, blocks]
    pc,                  \* position of the batch
    mode,                \* "auto" | "manual"
    to_lang,             \* target language of the request
    page_size,           \* number of summaries per listing response (server side)
    start_cursor,        \* get_all_pages: cursor of the next query
    pages,               \* get_all_pages: summaries accumulated so far
    all_pages,           \* get_pages_to_translate: result of get_all_pages
    todo,                \* ids the batch loop iterates over, in order
    idx,                 \* position of the batch loop in todo
    page,                \* translate_page: the retrieved page
    updated_properties,  \* translate_page: staged properties, in staging order
    pi,                  \* translate_page: position in the property loop
    blocks,              \* translate_page: blocks['results'] (mutated in place)
    bi,                  \* translate_page: position in the block loop
    ri,                  \* translate_block: position in the run loop
    results,             \* outcomes collected by the batch loop
    raised,              \* message of the exception the batch raised, or None
    failures,            \* failing calls injected so far
    str_e,               \* str(e) of the exceptions raised during this batch
    log,                 \* every store / provider call made, in order
    database_url,        \* the locator given to an automatic request (<<>>: none)
    database_id,         \* extract_database_id(database_url) (<<>>: none)
    first_run,           \* outcomes of the automatic batch run before this one
    work_queue,          \* thread_pool: provider calls submitted, not yet taken
    executing,           \* thread_pool: provider calls a worker thread is running
    future               \* translate_text: what the worker gave the awaited future

vars == << store, pc, mode, to_lang, page_size, start_cursor, pages, all_pages,
           todo, idx, page, updated_properties, pi, blocks, bi, ri, results,
           raised, failures, str_e, log, database_url, database_id, first_run,
           work_queue, executing, future >>

locals == << page, updated_properties, pi, blocks, bi, ri >>
fetch == << start_cursor, pages, all_pages >>
request == << mode, to_lang, page_size, str_e, database_url, database_id >>
pool == << work_queue, executing >>
batch == << store, pc, request, fetch, todo, idx, locals, results, raised,
            failures, log, first_run, future >>

Init ==
    /\ store \in InitialStores
    /\ pc = "idle"
    /\ mode = "none"
    /\ to_lang = "none"
    /\ page_size = 0
    /\ start_cursor = None
    /\ pages = <<>>
    /\ all_pages = <<>>
    /\ todo = <<>>
    /\ idx = 0
    /\ page = None
    /\ updated_properties = <<>>
    /\ pi = 0
    /\ blocks = <<>>
    /\ bi = 0
    /\ ri = 0
    /\ results = <<>>
    /\ raised = None
    /\ failures = 0
    /\ str_e = ""
    /\ log = <<>>
    /\ database_url = <<>>
    /\ database_id = <<>>
    /\ first_run = None
    /\ work_queue = <<>>
    /\ executing = {}
    /\ future = <<>>

\* ------------------------------------------------- outcomes of remote calls
Ok == [ok |-> TRUE]
Failed(msg) == [ok |-> FALSE, msg |-> msg]

\* What a call to the store or to the provider can do: return, or raise.
CallOutcomes ==
    {Ok} \cup (IF failures < MaxFailures THEN {Failed(str_e)} ELSE {})

Count(out) == IF out.ok THEN failures ELSE failures + 1

\* ------------------------------------------------------------ get_all_pages
\* The store's answer to databases.query(start_cursor=cursor): page_size
\* summaries in database order starting at the cursor, has_more and the cursor
\* of the summary that follows.
CursorAt(k) == [cursor |-> k]

QueryResponse(cursor) ==
    LET first == IF cursor = None THEN 1 ELSE cursor.cursor
        last == IF first + page_size - 1 < MaxDocs
                THEN first + page_size - 1 ELSE MaxDocs
    IN  [results |-> [i \in 1..(last - first + 1) |->
                         [id |-> first + i - 1,
                          properties |-> store[first + i - 1].properties]],
         has_more |-> last < MaxDocs,
         next_cursor |-> IF last < MaxDocs THEN CursorAt(last + 1) ELSE None]

\* (variant: the cursor of the response is dropped)
NextCursorNone(response) == None

\* start_cursor = response["next_cursor"]
NextCursor(response) == response.next_cursor

\* has_more = response["has_more"]
HasMore(response) == response.has_more

\* pages.extend(response["results"])
Extend(acc, response) == acc \o response.results

\* -------------------------------------------------- get_pages_to_translate
\* page['properties'].get('Statut', {}): None when the property is null
StatutProperty(p) == DictGet(p.properties, "Statut", EmptyDict)

\* ....get('status', {}): None when the status value is null
StatutValue(p) == DictGet(StatutProperty(p), "status", EmptyDict)

\* .get on None raises AttributeError: a null Statut property, a null status
StatutRaises(p) == StatutProperty(p) = None \/ StatutValue(p) = None

\* (variant: any page that has a status name is kept)
IsPendingAnyName(p) == "name" \in DOMAIN StatutValue(p)

\* ....get('name') == 'A traduire' (an absent name gives None, which differs)
IsPending(p) ==
    /\ "name" \in DOMAIN StatutValue(p)
    /\ StatutValue(p).name = "A traduire"

AttributeErrorMessage == "'NoneType' object has no attribute 'get'"

\* The list comprehension: raises at the first page whose status is null.
PagesToTranslate(all) ==
    IF \E i \in 1..Len(all) : StatutRaises(all[i])
    THEN [raises |-> TRUE, msg |-> AttributeErrorMessage]
    ELSE [raises |-> FALSE, pages |-> SelectSeq(all, IsPending)]

PageIdsOf(ps) == [i \in 1..Len(ps) |-> ps[i].id]

\* ----------------------------------------------------------- translate_page
\* the names page['properties'].items() yields, in the order of the response
PropNames(pg) == pg.keys

\* if prop_value['type'] == 'title': if prop_value['title']: ...
\* elif prop_value['type'] == 'rich_text': if prop_value['rich_text']: ...
IsStaged(pv) ==
    \/ pv.type = "title" /\ pv.title # <<>>
    \/ pv.type = "rich_text" /\ pv.rich_text # <<>>

\* (variant: a title is translated as the concatenation of all its runs)
OriginalTextJoined(pv) ==
    IF pv.type = "title"
    THEN Join([i \in 1..Len(pv.title) |-> pv.title[i].plain_text])
    ELSE Join([i \in 1..Len(pv.rich_text) |-> pv.rich_text[i].plain_text])

\* original_text of a staged property
OriginalText(pv) ==
    IF pv.type = "title"
    THEN pv.title[1].plain_text
    ELSE Join([i \in 1..Len(pv.rich_text) |-> pv.rich_text[i].plain_text])

\* the replacement staged for the property: one run holding the translation
Staged(pv, translated) ==
    IF pv.type = "title"
    THEN [title |-> << [text |-> [content |-> translated]] >>]
    ELSE [rich_text |-> << [text |-> [content |-> translated]] >>]

\* (variant: the property loop translates nothing)
NextStagedNone(pg, k) == 0

RECURSIVE NextStaged(_, _)
\* position >= k of the next property the loop translates, 0 when none is left
NextStaged(pg, k) ==
    IF k > Len(PropNames(pg)) THEN 0
    ELSE IF IsStaged(pg.properties[PropNames(pg)[k]]) THEN k
    ELSE NextStaged(pg, k + 1)

\* ---------------------------------------------------------- translate_block
TRANSLATABLE_BLOCK_TYPES ==
    { "paragraph", "heading_1", "heading_2", "heading_3", "bulleted_list_item",
      "numbered_list_item", "to_do", "toggle", "quote", "callout" }

\* (variant: every block that has rich text is translated)
HasRichText(b) == "rich_text" \in DOMAIN b

\* if block['type'] in [...]
IsTranslatableBlock(b) == b.type \in TRANSLATABLE_BLOCK_TYPES

\* (variant: runs of every kind are translated)
AnyElement(el) == TRUE

\* if text_element['type'] == 'text'
IsTextElement(el) == el.type = "text"

RECURSIVE NextTextElement(_, _)
\* position >= k of the next run translate_block translates, 0 when none is left
NextTextElement(b, k) ==
    IF k > Len(b.rich_text) THEN 0
    ELSE IF IsTextElement(b.rich_text[k]) THEN k
    ELSE NextTextElement(b, k + 1)

\* (variant: the block loop ends at the first block translate_block skips)
NextBlockStepBreak(bs, k) ==
    IF k > Len(bs) \/ ~IsTranslatableBlock(bs[k])
    THEN [pc |-> "stamp", bi |-> 0, ri |-> 0]
    ELSE IF NextTextElement(bs[k], 1) = 0
         THEN [pc |-> "update_block", bi |-> k, ri |-> 0]
         ELSE [pc |-> "translate_run", bi |-> k, ri |-> NextTextElement(bs[k], 1)]

RECURSIVE NextBlockStep(_, _)
\* The block loop from block k up to its next awaited call: the translation of
\* a run, the update of a block translate_block returned, or the final update.
NextBlockStep(bs, k) ==
    IF k > Len(bs) THEN [pc |-> "stamp", bi |-> 0, ri |-> 0]
    ELSE IF ~IsTranslatableBlock(bs[k]) THEN NextBlockStep(bs, k + 1)
    ELSE IF NextTextElement(bs[k], 1) = 0
         THEN [pc |-> "update_block", bi |-> k, ri |-> 0]
         ELSE [pc |-> "translate_run", bi |-> k, ri |-> NextTextElement(bs[k], 1)]

\* from_lang of the request (its default)
FromLang == "fr"

\* (variant: a failing call is swallowed and the caller goes on)
RaisesNever(out) == FALSE

\* The awaited call raises exactly when the remote operation fails; inside
\* translate_page the exception reaches the except clause of the function.
Raises(out) == ~out.ok

\* (variant: the loop ends at the first error outcome)
LoopStopsOnError(result) == result.status = "success"

\* The batch loop goes on to the next id whatever the outcome was.
LoopContinues(result) == TRUE

\* return {"page_id": page_id, "status": "success"}
Success(page_id) == [page_id |-> page_id, status |-> "success"]

\* return {"page_id": page_id, "status": "error", "error_message": str(e)}
Error(page_id, msg) ==
    [page_id |-> page_id, status |-> "error", error_message |-> msg]

\* The properties of a page after pages.update(properties=staged).
Updated(props, staged) ==
    [n \in DOMAIN props \cup DOMAIN staged |->
        IF n \notin DOMAIN staged THEN props[n]
        ELSE IF "title" \in DOMAIN staged[n]
        THEN [type |-> "title",
              title |-> << [plain_text |-> staged[n].title[1].text.content] >>]
        ELSE IF "rich_text" \in DOMAIN staged[n]
        THEN [type |-> "rich_text",
              rich_text |-> << [plain_text |-> staged[n].rich_text[1].text.content] >>]
        ELSE IF "select" \in DOMAIN staged[n]
        THEN [type |-> "select", select |-> staged[n].select]
        ELSE [type |-> "status", status |-> staged[n].status]]

\* The key order of a page after pages.update(properties=staged): a property
\* the page did not have comes after the others.
UpdatedKeys(keys, names) ==
    keys \o SelectSeq(names, LAMBDA n : \A k \in 1..Len(keys) : keys[k] # n)

\* properties of the final pages.update
StampProperties(lang) ==
    [Langue |-> [select |-> [name |-> LanguageName(lang)]],
     Statut |-> [status |-> [name |-> "Traduit"]]]

Cur == todo[idx]

Logged(entry) == log' = Append(log, entry)

\* results.append(result), then the next iteration of the batch loop or return
Finish(result) ==
    /\ results' = Append(results, result)
    /\ IF LoopContinues(result) /\ idx < Len(todo)
       THEN idx' = idx + 1 /\ pc' = "retrieve"
       ELSE idx' = idx /\ pc' = "done"
    /\ page' = None
    /\ updated_properties' = <<>>
    /\ pi' = 0
    /\ blocks' = <<>>
    /\ bi' = 0
    /\ ri' = 0

\* for page_id in ...: the loop over ids starts
BeginLoop(ids) ==
    /\ todo' = ids
    /\ IF ids = <<>>
       THEN idx' = 0 /\ pc' = "done"
       ELSE idx' = 1 /\ pc' = "retrieve"

\* the HTTP handler translate() and the script run_translation_script()
EntryPoints == {"http", "cli"}

\* translate(): if mode == 'auto' and not database_url: ... 400
DATABASE_URL_REQUIRED == "database_url is required for auto mode"

\* mode 'auto': the HTTP handler refuses an empty locator (400); otherwise
\* both entry points call extract_database_id and then
\* translate_all_pages_to_translate
StartAuto ==
    /\ pc = "idle"
    /\ \E tl \in TargetLanguages, ps \in 1..MaxDocs, m \in ErrorMessages,
          url \in RequestLocators, entry \in EntryPoints :
          LET r == extract_database_id(url)
          IN  /\ mode' = "auto"
              /\ to_lang' = tl
              /\ str_e' = m
              /\ page_size' = ps
              /\ database_url' = url
              /\ IF entry = "http" /\ url = <<>>
                 THEN /\ pc' = "rejected"
                      /\ raised' = [error |-> DATABASE_URL_REQUIRED]
                      /\ database_id' = <<>>
                 ELSE IF r.raises
                 THEN /\ pc' = "raised"
                      /\ raised' = [msg |-> r.msg]
                      /\ database_id' = <<>>
                 ELSE /\ pc' = "query"
                      /\ database_id' = r.id
                      /\ UNCHANGED raised
    /\ UNCHANGED << store, fetch, todo, idx, locals, results, failures, log >>
    /\ UNCHANGED << first_run, pool, future >>

\* translate(): mode 'manual' -> translate_specific_pages(page_ids)
StartManual ==
    /\ pc = "idle"
    /\ \E tl \in TargetLanguages, ids \in IdLists, m \in ErrorMessages :
          /\ mode' = "manual"
          /\ to_lang' = tl
          /\ str_e' = m
          /\ BeginLoop(ids)
    /\ UNCHANGED << store, page_size, database_url, database_id, fetch, locals,
                    results, raised, failures, log >>
    /\ UNCHANGED << first_run, pool, future >>

\* One iteration of the while loop of get_all_pages; after the last one,
\* get_pages_to_translate filters and the batch loop starts.
Query ==
    /\ pc = "query"
    /\ \E out \in CallOutcomes :
        LET resp == QueryResponse(start_cursor)
            acc == Extend(pages, resp)
            sel == PagesToTranslate(acc)
        IN  /\ failures' = Count(out)
            /\ Logged([op |-> "query", item |-> 0, page_id |-> 0, ok |-> out.ok,
                       cursor |-> start_cursor,
                       ids |-> PageIdsOf(resp.results),
                       has_more |-> resp.has_more,
                       next_cursor |-> resp.next_cursor])
            /\ IF Raises(out)
               THEN /\ pc' = "raised"
                    /\ raised' = [msg |-> out.msg]
                    /\ UNCHANGED << fetch, todo, idx >>
               ELSE /\ pages' = acc
                    /\ start_cursor' = NextCursor(resp)
                    /\ IF HasMore(resp)
                       THEN UNCHANGED << pc, all_pages, todo, idx, raised >>
                       ELSE /\ all_pages' = acc
                            /\ IF sel.raises
                               THEN /\ pc' = "raised"
                                    /\ raised' = [msg |-> sel.msg]
                                    /\ UNCHANGED << todo, idx >>
                               ELSE /\ BeginLoop(PageIdsOf(sel.pages))
                                    /\ UNCHANGED raised
    /\ UNCHANGED << store, request, locals, results >>
    /\ UNCHANGED << first_run, pool, future >>

\* ------------------------------------------- translate_text and the pool
\* thread_pool = ThreadPoolExecutor(max_workers=5), one for the process
MAX_WORKERS == 5

MaxBatches == 6     \* batches running at the same time in the process

\* the other batches of the process
Batches == 1..MaxBatches

\* the batch of this request, as the pool sees it
ThisBatch == 0

\* the positions at which the batch awaits translate_text
TranslatePcs == {"translate_prop", "translate_run"}

\* The code from the return of one awaited call up to the next await: when
\* that await is translate_text, loop.run_in_executor(thread_pool, ...) has
\* submitted the provider call before the batch is suspended.
AwaitNext ==
    work_queue' = IF pc' \in TranslatePcs
                  THEN Append(work_queue, ThisBatch)
                  ELSE work_queue

\* (variant: a pool without limit)
HasFreeWorkerAlways == TRUE

\* The pool never has more than max_workers worker threads and a thread runs
\* one call at a time: a thread that runs no call exists, or can be created,
\* only while fewer than max_workers calls are executing.
HasFreeWorker == Cardinality(executing) < MAX_WORKERS

InQueue(b) == \E k \in 1..Len(work_queue) : work_queue[k] = b

\* await loop.run_in_executor(thread_pool, ...): batch b, which awaits no
\* other call, submits its provider call to the pool's queue.
Submit(b) ==
    /\ ~InQueue(b)
    /\ b \notin executing
    /\ work_queue' = Append(work_queue, b)
    /\ UNCHANGED << executing, batch >>

\* a worker thread that runs no call takes the oldest submitted call and
\* starts translator.translate_text
WorkerTake ==
    /\ work_queue # <<>>
    /\ HasFreeWorker
    /\ executing' = executing \cup {Head(work_queue)}
    /\ work_queue' = Tail(work_queue)
    /\ UNCHANGED batch

\* translator.translate_text of batch b's call returns or raises
ProviderReturns(b) ==
    /\ b \in executing
    /\ executing' = executing \ {b}
    /\ UNCHANGED << work_queue, batch >>

\* translator.translate_text of this batch's call returns or raises in the
\* worker thread, which hands the result or the exception to the future the
\* batch awaits; the batch itself resumes in a later step of the event loop.
\* (The text of a result is ProviderText of the submitted text.)
WorkerReturn ==
    /\ ThisBatch \in executing
    /\ \E out \in CallOutcomes :
          /\ future' = << out >>
          /\ failures' = Count(out)
    /\ executing' = executing \ {ThisBatch}
    /\ UNCHANGED << store, pc, request, fetch, todo, idx, locals, results, raised,
                    log, first_run, work_queue >>

\* (variant: the await gives up on a call that has not returned)
AwaitedOutcomesOrTimeout ==
    IF future = <<>> THEN {Failed(str_e)} ELSE {future[1]}

\* await loop.run_in_executor(...): the batch resumes only once the future has
\* its result or exception, and with it.
AwaitedOutcomes ==
    IF future = <<>> THEN {} ELSE {future[1]}

InitPool == Init /\ store = CHOOSE s \in InitialStores : TRUE

NextPool ==
    \/ \E b \in Batches : Submit(b)
    \/ WorkerTake
    \/ \E b \in Batches : ProviderReturns(b)

SpecPool == InitPool /\ [][NextPool]_vars

\* page = await notion.pages.retrieve(page_id), then the property loop up to
\* its first translation
Retrieve ==
    /\ pc = "retrieve"
    /\ \E out \in CallOutcomes :
        LET pg == [id |-> Cur, properties |-> store[Cur].properties,
                   keys |-> store[Cur].keys]
            k == NextStaged(pg, 1)
        IN  /\ failures' = Count(out)
            /\ Logged([op |-> "retrieve", item |-> idx, page_id |-> Cur, ok |-> out.ok])
            /\ IF Raises(out)
               THEN Finish(Error(Cur, out.msg))
               ELSE /\ page' = pg
                    /\ pi' = k
                    /\ pc' = IF k = 0 THEN "list_children" ELSE "translate_prop"
                    /\ UNCHANGED << updated_properties, blocks, bi, ri, results, idx >>
    /\ UNCHANGED << store, request, fetch, todo, raised >>
    /\ UNCHANGED << first_run, executing, future >>
    /\ AwaitNext

\* translated_text = await translate_text(original_text, ...) for the property
\* at pi: the event loop resumes the batch with what the worker gave the
\* future (the translation, or the exception); the staging of the replacement,
\* and the loop up to the next one
TranslateProp ==
    /\ pc = "translate_prop"
    /\ \E out \in AwaitedOutcomes :
        LET name == PropNames(page)[pi]
            pv == page.properties[name]
            text == OriginalText(pv)
            k == NextStaged(page, pi + 1)
        IN  /\ Logged([op |-> "translate", item |-> idx, page_id |-> Cur, ok |-> out.ok,
                       block_id |-> 0, prop |-> name, text |-> text])
            /\ IF Raises(out)
               THEN Finish(Error(Cur, out.msg))
               ELSE /\ updated_properties' =
                         (name :> Staged(pv, ProviderText(text, FromLang, to_lang)))
                            @@ updated_properties
                    /\ pi' = k
                    /\ pc' = IF k = 0 THEN "update_properties" ELSE "translate_prop"
                    /\ UNCHANGED << page, blocks, bi, ri, results, idx >>
    /\ UNCHANGED << store, request, fetch, todo, raised >>
    /\ future' = <<>>
    /\ AwaitNext
    /\ UNCHANGED << first_run, executing, failures >>

\* if updated_properties: await notion.pages.update(properties=updated_properties)
UpdateProperties ==
    /\ pc = "update_properties"
    /\ \E out \in CallOutcomes :
        /\ failures' = Count(out)
        /\ Logged([op |-> "update_properties", item |-> idx, page_id |-> Cur,
                   ok |-> out.ok, properties |-> updated_properties])
        /\ store' = IF out.ok
                    THEN [store EXCEPT ![Cur].properties = Updated(@, updated_properties)]
                    ELSE store
        /\ IF Raises(out)
           THEN Finish(Error(Cur, out.msg))
           ELSE /\ pc' = "list_children"
                /\ UNCHANGED << locals, results, idx >>
    /\ UNCHANGED << request, fetch, todo, raised >>
    /\ UNCHANGED << first_run, pool, future >>

\* blocks = await notion.blocks.children.list(block_id=page_id), then the block
\* loop up to its first awaited call
ListChildren ==
    /\ pc = "list_children"
    /\ \E out \in CallOutcomes :
        LET bs == store[Cur].blocks
            step == NextBlockStep(bs, 1)
        IN  /\ failures' = Count(out)
            /\ Logged([op |-> "list_children", item |-> idx, page_id |-> Cur,
                       ok |-> out.ok])
            /\ IF Raises(out)
               THEN Finish(Error(Cur, out.msg))
               ELSE /\ blocks' = bs
                    /\ pc' = step.pc
                    /\ bi' = step.bi
                    /\ ri' = step.ri
                    /\ UNCHANGED << page, updated_properties, pi, results, idx >>
    /\ UNCHANGED << store, request, fetch, todo, raised >>
    /\ UNCHANGED << first_run, executing, future >>
    /\ AwaitNext

\* translate_block: translated_text = await translate_text(original_text, ...)
\* for the run at ri: the event loop resumes the batch with what the worker
\* gave the future (the translation, or the exception); its assignment, and
\* the run loop up to the next text run
TranslateRun ==
    /\ pc = "translate_run"
    /\ \E out \in AwaitedOutcomes :
        LET text == blocks[bi].rich_text[ri].content
            bs == [blocks EXCEPT
                      ![bi].rich_text[ri].content = ProviderText(text, FromLang, to_lang)]
            r == NextTextElement(bs[bi], ri + 1)
        IN  /\ Logged([op |-> "translate", item |-> idx, page_id |-> Cur, ok |-> out.ok,
                       block_id |-> blocks[bi].id, prop |-> "", text |-> text])
            /\ IF Raises(out)
               THEN Finish(Error(Cur, out.msg))
               ELSE /\ blocks' = bs
                    /\ ri' = r
                    /\ pc' = IF r = 0 THEN "update_block" ELSE "translate_run"
                    /\ UNCHANGED << page, updated_properties, pi, bi, results, idx >>
    /\ UNCHANGED << store, request, fetch, todo, raised >>
    /\ future' = <<>>
    /\ AwaitNext
    /\ UNCHANGED << first_run, executing, failures >>

\* if translated_block: await notion.blocks.update(block_id, **translated_block),
\* then the block loop up to its next awaited call
UpdateBlock ==
    /\ pc = "update_block"
    /\ \E out \in CallOutcomes :
        LET step == NextBlockStep(blocks, bi + 1)
        IN  /\ failures' = Count(out)
            /\ Logged([op |-> "update_block", item |-> idx, page_id |-> Cur,
                       ok |-> out.ok, block_id |-> blocks[bi].id,
                       payload |-> blocks[bi]])
            /\ store' = IF out.ok
                        THEN [store EXCEPT ![Cur].blocks[bi] = blocks[bi]]
                        ELSE store
            /\ IF Raises(out)
               THEN Finish(Error(Cur, out.msg))
               ELSE /\ pc' = step.pc
                    /\ bi' = step.bi
                    /\ ri' = step.ri
                    /\ UNCHANGED << page, updated_properties, pi, blocks, results, idx >>
    /\ UNCHANGED << request, fetch, todo, raised >>
    /\ UNCHANGED << first_run, executing, future >>
    /\ AwaitNext

\* the final await notion.pages.update(Langue, Statut) and the return
Stamp ==
    /\ pc = "stamp"
    /\ \E out \in CallOutcomes :
        /\ failures' = Count(out)
        /\ Logged([op |-> "stamp", item |-> idx, page_id |-> Cur, ok |-> out.ok,
                   properties |-> StampProperties(to_lang)])
        /\ store' = IF out.ok
                    THEN [store EXCEPT
                             ![Cur].properties = Updated(@, StampProperties(to_lang)),
                             ![Cur].keys = UpdatedKeys(@, <<"Langue", "Statut">>)]
                    ELSE store
        /\ IF Raises(out)
           THEN Finish(Error(Cur, out.msg))
           ELSE Finish(Success(Cur))
    /\ UNCHANGED << request, fetch, todo, raised >>
    /\ UNCHANGED << first_run, pool, future >>

Next ==
    \/ StartAuto
    \/ StartManual
    \/ Query
    \/ Retrieve
    \/ TranslateProp
    \/ UpdateProperties
    \/ ListChildren
    \/ TranslateRun
    \/ UpdateBlock
    \/ Stamp
    \/ WorkerTake
    \/ WorkerReturn

Spec == Init /\ [][Next]_vars

\* ------------------------------- the automatic batch run twice in a row
\* The same automatic request is made again once its batch has returned, on
\* the store as the first batch left it.
Rerun ==
    /\ pc = "done"
    /\ mode = "auto"
    /\ first_run = None
    /\ first_run' = [results |-> results, store |-> store]
    /\ pc' = "query"
    /\ start_cursor' = None
    /\ pages' = <<>>
    /\ all_pages' = <<>>
    /\ todo' = <<>>
    /\ idx' = 0
    /\ results' = <<>>
    /\ log' = <<>>
    /\ UNCHANGED << store, request, locals, raised, failures, pool, future >>

NextTwice ==
    \/ StartAuto
    \/ Rerun
    \/ WorkerTake
    \/ WorkerReturn
    \/ Query
    \/ Retrieve
    \/ TranslateProp
    \/ UpdateProperties
    \/ ListChildren
    \/ TranslateRun
    \/ UpdateBlock
    \/ Stamp

SpecTwice == Init /\ [][NextTwice]_vars

\* --------------------------------------- extract_database_id on its own
MaxExtra == 1       \* hex runs are up to ID_LEN + MaxExtra characters long

RunChars == {"a", "7"}
RunLengths == {0, 1} \cup ((ID_LEN - 1)..(ID_LEN + MaxExtra))
Prefixes == { <<>>, <<"/">>, <<"A">> }
Separators == { <<>>, <<"-">>, <<"g">> }

\* Locators: a prefix, a run of one hex character, a separator, a second run.
Locators ==
    { pre \o Rep(c1, n1) \o sep \o Rep(c2, n2) :
        pre \in Prefixes, c1 \in RunChars, n1 \in RunLengths,
        sep \in Separators, c2 \in RunChars, n2 \in RunLengths }

InitExtract ==
    /\ store = CHOOSE s \in InitialStores : TRUE
    /\ pc = "extract"
    /\ mode = "none"
    /\ to_lang = "none"
    /\ page_size = 0
    /\ start_cursor = None
    /\ pages = <<>>
    /\ all_pages = <<>>
    /\ todo = <<>>
    /\ idx = 0
    /\ page = None
    /\ updated_properties = <<>>
    /\ pi = 0
    /\ blocks = <<>>
    /\ bi = 0
    /\ ri = 0
    /\ results = <<>>
    /\ raised = None
    /\ failures = 0
    /\ str_e = ""
    /\ log = <<>>
    /\ database_url \in Locators
    /\ database_id = <<>>
    /\ first_run = None
    /\ work_queue = <<>>
    /\ executing = {}
    /\ future = <<>>

\* database_id = extract_database_id(database_url)
ExtractDatabaseId ==
    /\ pc = "extract"
    /\ LET r == extract_database_id(database_url)
       IN  IF r.raises
           THEN /\ pc' = "raised"
                /\ raised' = [msg |-> r.msg]
                /\ UNCHANGED database_id
           ELSE /\ pc' = "extracted"
                /\ database_id' = r.id
                /\ UNCHANGED raised
    /\ UNCHANGED << store, mode, to_lang, page_size, str_e, database_url, fetch,
                    todo, idx, locals, results, failures, log, first_run, pool,
                    future >>

NextExtract == ExtractDatabaseId

SpecExtract == InitExtract /\ [][NextExtract]_vars

\* The awaited calls: each of these steps is the return of a store call (with
\* a result or an error), or the resumption of the batch with the result or
\* error of a provider call.
Calls ==
    \/ Query
    \/ Retrieve
    \/ TranslateProp
    \/ UpdateProperties
    \/ ListChildren
    \/ TranslateRun
    \/ UpdateBlock
    \/ Stamp

\* The batch when every call it awaits eventually returns (a submitted
\* provider call is eventually taken by a worker, and returns) and the event
\* loop eventually resumes a batch whose awaited call has returned.
SpecLive ==
    Init /\ [][Next]_vars /\ WF_vars(Calls) /\ WF_vars(WorkerTake) /\ WF_vars(WorkerReturn)

\* ================================================================ claims
LogIdx == 1..Len(log)

\* the calls made while processing the item-th id of the batch
CallsOf(item) == { k \in LogIdx : log[k].item = item }

\* the status name of a page's properties, "" when it has none
StatusNameOf(props) ==
    IF /\ "Statut" \in DOMAIN props
       /\ "status" \in DOMAIN props["Statut"]
       /\ props["Statut"].status # None
       /\ "name" \in DOMAIN props["Statut"].status
    THEN props["Statut"].status.name
    ELSE ""

\* C1: runManual and runAuto return exactly one outcome per id, in order, each
\* carrying its id (for runAuto the ids are the listed pages whose status is
\* "A traduire", in listing order); every id of the batch has been processed,
\* whatever failed before it.
C1_OneOutcomePerDocument ==
    /\ pc \notin {"idle", "query", "raised", "rejected"} =>
          /\ Len(results) = (IF pc = "done" THEN Len(todo) ELSE idx - 1)
          /\ \A i \in 1..Len(results) : results[i].page_id = todo[i]
    /\ pc = "done" =>
          /\ \A i \in 1..Len(todo) :
                \E k \in CallsOf(i) : log[k].op = "retrieve" /\ log[k].page_id = todo[i]
          /\ mode = "auto" =>
                todo = PageIdsOf(SelectSeq(all_pages,
                           LAMBDA p : StatusNameOf(p.properties) = "A traduire"))

\* C1 witness: an automatic batch of two pages returned after its first page failed.
C1_Witness ==
    /\ pc = "done"
    /\ mode = "auto"
    /\ Len(results) = 2
    /\ results[1].status = "error"
    /\ results[2].status = "success"

\* C2: translate_page returns status "error" with a non-empty error message when
\* any of its calls failed, and status "success" only when none failed.
C2_ErrorOutcomeHasMessage ==
    \A i \in 1..Len(results) :
        /\ (\E k \in CallsOf(i) : ~log[k].ok) =>
              /\ results[i].status = "error"
              /\ results[i].error_message # ""
        /\ results[i].status = "success" => \A k \in CallsOf(i) : log[k].ok

\* C3: the final update is issued only after every staged property was
\* translated and written and every translatable child block was translated and
\* written; no call for the document follows it.
C3_StampAfterPropertiesAndBlocks ==
    \A k \in LogIdx :
        log[k].op = "stamp" =>
            LET before == { j \in CallsOf(log[k].item) : j < k }
                d == log[k].page_id
            IN  /\ \A n \in {"Name", "Desc"} :
                      IsStaged(InitialContentProps(d)[n]) =>
                          /\ \E j \in before :
                                log[j].op = "translate" /\ log[j].prop = n /\ log[j].ok
                          /\ \E j \in before :
                                /\ log[j].op = "update_properties"
                                /\ n \in DOMAIN log[j].properties
                                /\ log[j].ok
                /\ \E j \in before : log[j].op = "list_children" /\ log[j].ok
                /\ \A b \in 1..Len(InitialBlocks(d)) :
                      InitialBlocks(d)[b].type \in
                            {"paragraph", "heading_1", "heading_2", "heading_3",
                             "bulleted_list_item", "numbered_list_item", "to_do",
                             "toggle", "quote", "callout"} =>
                          /\ \E j \in before :
                                /\ log[j].op = "update_block"
                                /\ log[j].block_id = InitialBlocks(d)[b].id
                                /\ log[j].ok
                          /\ Cardinality({ j \in before :
                                   /\ log[j].op = "translate"
                                   /\ log[j].block_id = InitialBlocks(d)[b].id
                                   /\ log[j].ok })
                             = Cardinality({ r \in 1..Len(InitialBlocks(d)[b].rich_text) :
                                   InitialBlocks(d)[b].rich_text[r].type = "text" })
                /\ \A j \in CallsOf(log[k].item) : j <= k

\* C3 witness: the final update of a document that has properties and blocks.
C3_Witness ==
    \E k \in LogIdx : log[k].op = "stamp" /\ log[k].page_id = 1

\* the final update of the current page is being acknowledged by the store
StampedNow ==
    /\ pc = "stamp"
    /\ Len(log') = Len(log) + 1
    /\ log'[Len(log')].op = "stamp"
    /\ log'[Len(log')].ok

\* C4 (as claimed): a document receives the "Traduit" stamp only if its status
\* was "A traduire" when it was processed, in automatic and in manual mode.
C4_StampOnlyFromATraduire ==
    [][StampedNow => StatusNameOf(store[Cur].properties) = "A traduire"]_vars

\* C4 (amended): in an automatic batch a document receives the "Traduit" stamp
\* only if its status was "A traduire" when it was processed; in either mode the
\* status of a document changes only by the final update of that document, and
\* only to "Traduit".
C4_AutoStampOnlyFromATraduire ==
    [][ /\ (StampedNow /\ mode = "auto") =>
               StatusNameOf(store[Cur].properties) = "A traduire"
        /\ \A d \in DocIds :
               StatusNameOf(store'[d].properties) # StatusNameOf(store[d].properties) =>
                   /\ StampedNow
                   /\ d = Cur
                   /\ StatusNameOf(store'[d].properties) = "Traduit" ]_vars

\* C4 witness: an automatic batch has stamped a document.
C4_Witness ==
    /\ mode = "auto"
    /\ \E k \in LogIdx :
          /\ log[k].op = "stamp"
          /\ log[k].ok
          /\ StatusNameOf(store[log[k].page_id].properties) = "Traduit"

\* C5 (as claimed): when a child-block update fails, the final update of the
\* document is still attempted.
C5_StampAttemptedAfterBlockUpdateFailure ==
    \A i \in 1..Len(results) :
        (\E k \in CallsOf(i) : log[k].op = "update_block" /\ ~log[k].ok) =>
            \E k \in CallsOf(i) : log[k].op = "stamp"

\* C5 (amended): the final update (Statut "Traduit", Langue = display name or
\* raw code of to_lang) is attempted exactly when every earlier call for the
\* document succeeded; when a child-block update fails it is not attempted and
\* the outcome is an error.
C5_StampAttemptedIffNoFailure ==
    /\ \A k \in LogIdx :
          log[k].op = "stamp" =>
              /\ \A j \in CallsOf(log[k].item) : j < k => log[j].ok
              /\ log[k].properties =
                    [Langue |-> [select |-> [name |->
                         IF to_lang = "nl" THEN "Nederlands" ELSE to_lang]],
                     Statut |-> [status |-> [name |-> "Traduit"]]]
    /\ \A i \in 1..Len(results) :
          \/ \E k \in CallsOf(i) : log[k].op = "stamp"
          \/ /\ \E k \in CallsOf(i) : log[k].op # "stamp" /\ ~log[k].ok
             /\ results[i].status = "error"

\* C5 witness: a document whose block update failed has its outcome.
C5_Witness ==
    \E i \in 1..Len(results) :
        /\ \E k \in CallsOf(i) : log[k].op = "update_block" /\ ~log[k].ok
        /\ \A k \in CallsOf(i) : log[k].op # "stamp"

RECURSIVE ListedIds(_)
\* the ids of the summaries the first k calls returned, in the order received
ListedIds(k) ==
    IF k = 0 THEN <<>>
    ELSE ListedIds(k - 1)
            \o (IF log[k].op = "query" /\ log[k].ok THEN log[k].ids ELSE <<>>)

QueryCalls == { k \in LogIdx : log[k].op = "query" }

\* the listing ended: a response without more pages was received
FetchEnded == \E k \in QueryCalls : log[k].ok /\ ~log[k].has_more

\* C6: get_all_pages issues its first query without cursor and every later one
\* with the next_cursor of the response just before it, issues none after a
\* response without more pages, and returns the summaries of all responses in
\* the order received (here: every document of the database once, in order).
C6_FetchAllFollowsCursors ==
    /\ \A k \in QueryCalls :
          IF k = 1
          THEN log[k].cursor = None
          ELSE /\ log[k - 1].op = "query"
               /\ log[k - 1].ok
               /\ log[k - 1].has_more
               /\ log[k].cursor = log[k - 1].next_cursor
    /\ PageIdsOf(pages) = ListedIds(Len(log))
    /\ FetchEnded =>
          /\ PageIdsOf(all_pages) = ListedIds(Len(log))
          /\ PageIdsOf(all_pages) = [i \in 1..MaxDocs |-> i]

\* C6 witness: a listing of two responses has ended.
C6_Witness ==
    /\ FetchEnded
    /\ Cardinality(QueryCalls) >= 2

\* C7: get_pages_to_translate returns the listed summaries whose status name is
\* "A traduire", in listing order; a summary without status property or without
\* status value is left out and causes no error.
C7_PendingIsFilteredListing ==
    FetchEnded =>
        /\ raised = None
        /\ todo = PageIdsOf(SelectSeq(all_pages,
                      LAMBDA p : StatusNameOf(p.properties) = "A traduire"))

\* C8: when a listing call fails the batch raises that error: no summaries are
\* returned, no page is processed and no other call is made.
C8_ListingFailureAbortsBatch ==
    \A k \in QueryCalls :
        ~log[k].ok =>
            /\ pc = "raised"
            /\ raised = [msg |-> str_e]
            /\ all_pages = <<>>
            /\ todo = <<>>
            /\ results = <<>>
            /\ LogIdx = QueryCalls
            /\ k = Len(log)

\* C8 witness: the second listing call failed.
C8_Witness ==
    \E k \in QueryCalls : k > 1 /\ ~log[k].ok

OtherKind(b) ==
    b.type \notin {"paragraph", "heading_1", "heading_2", "heading_3",
                   "bulleted_list_item", "numbered_list_item", "to_do", "toggle",
                   "quote", "callout"}

\* the block of document d that has this id
BlockOf(d, id) ==
    LET bs == InitialBlocks(d)
    IN  CHOOSE b \in { bs[i] : i \in 1..Len(bs) } : b.id = id

\* C9: a block whose kind is not in the allow-list is never sent to the
\* provider, never modified (in the listed copy or in the store) and never
\* passed to blocks.update.
C9_OtherKindsUntouched ==
    /\ \A k \in LogIdx :
          /\ log[k].op = "update_block" => ~OtherKind(BlockOf(log[k].page_id, log[k].block_id))
          /\ (log[k].op = "translate" /\ log[k].block_id # 0) =>
                ~OtherKind(BlockOf(log[k].page_id, log[k].block_id))
    /\ \A d \in DocIds :
          LET bs == InitialBlocks(d)
          IN  \A b \in 1..Len(bs) :
                 OtherKind(bs[b]) =>
                     /\ store[d].blocks[b] = bs[b]
                     /\ (blocks # <<>> /\ Cur = d) => blocks[b] = bs[b]

\* C9 witness: the block loop went past a code block with a text run and the
\* final update of that document was made.
C9_Witness ==
    \E k \in LogIdx : log[k].op = "stamp" /\ log[k].page_id = 2 /\ log[k].ok

\* the texts of the provider calls made for block id of the item-th id
RECURSIVE TextsSent(_, _, _)
TextsSent(k, item, id) ==
    IF k = 0 THEN <<>>
    ELSE TextsSent(k - 1, item, id)
            \o (IF /\ log[k].op = "translate"
                   /\ log[k].item = item
                   /\ log[k].block_id = id
                THEN << log[k].text >> ELSE <<>>)

\* C10: while translate_block works on an allow-listed block, and when it
\* returns it, the block has the runs of the listed block in the same number
\* and order; each text run already visited holds the provider's translation of
\* its own content, every other run is unchanged; the provider was called once
\* per visited text run, in run order, and not at all for an empty run list.
C10_RunsTranslatedInPlace ==
    pc \in {"translate_run", "update_block"} =>
        LET orig == store[Cur].blocks[bi]
            cur == blocks[bi]
            done(r) == pc = "update_block" \/ r < ri
        IN  /\ cur.id = orig.id
            /\ cur.type = orig.type
            /\ Len(cur.rich_text) = Len(orig.rich_text)
            /\ \A r \in 1..Len(orig.rich_text) :
                  cur.rich_text[r] =
                      IF orig.rich_text[r].type = "text" /\ done(r)
                      THEN [type |-> "text",
                            content |-> ProviderText(orig.rich_text[r].content,
                                                     "fr", to_lang)]
                      ELSE orig.rich_text[r]
            /\ TextsSent(Len(log), idx, orig.id) =
                  LET visited == SelectSeq([r \in 1..Len(orig.rich_text) |->
                                               [r |-> r, run |-> orig.rich_text[r]]],
                                           LAMBDA x : x.run.type = "text" /\ done(x.r))
                  IN  [i \in 1..Len(visited) |-> visited[i].run.content]

\* C10 witness: translate_block returned a block with two text runs and one
\* run of another kind.
C10_Witness ==
    /\ pc = "update_block"
    /\ Len(blocks[bi].rich_text) = 3
    /\ Len(TextsSent(Len(log), idx, blocks[bi].id)) = 2

\* what a logged call is: its operation, the property or the block it is for
Sig(e) ==
    << e.op,
       IF e.op = "translate" THEN e.prop ELSE "",
       IF e.op \in {"translate", "update_block"} THEN e.block_id ELSE 0 >>

\* the calls of the item-th id of the batch, in the order made
SigsOf(item) ==
    LET es == SelectSeq(log, LAMBDA e : e.item = item)
    IN  [k \in 1..Len(es) |-> Sig(es[k])]

\* the text properties of document 1, in the order the store lists them
TextKeys(d) == SelectSeq(store[d].keys, LAMBDA n : n \in {"Name", "Desc"})

\* The calls the processing of document d consists of, in order: document 1 has
\* a title, a rich text, a paragraph with two text runs (block 11), an image,
\* an empty heading (block 13) and a quote with one text run (block 14); the
\* other documents have nothing to translate.
ExpectedCalls(d) ==
    IF d = 1
    THEN << <<"retrieve", "", 0>>,
            <<"translate", TextKeys(d)[1], 0>>, <<"translate", TextKeys(d)[2], 0>>,
            <<"update_properties", "", 0>>,
            <<"list_children", "", 0>>,
            <<"translate", "", 11>>, <<"translate", "", 11>>,
            <<"update_block", "", 11>>,
            <<"update_block", "", 13>>,
            <<"translate", "", 14>>,
            <<"update_block", "", 14>>,
            <<"stamp", "", 0>> >>
    ELSE << <<"retrieve", "", 0>>, <<"list_children", "", 0>>, <<"stamp", "", 0>> >>

IsPrefix(s, t) == Len(s) <= Len(t) /\ s = SubSeq(t, 1, Len(s))

\* C11: the calls of a batch are totally ordered: the listing calls first, then
\* the calls of the first id, then those of the second, ...; for one document
\* they are, in this order, the retrieve, the property translations, the
\* property update, the child listing, for each block in listing order its
\* translations and then its update, and the final update. The batch has one
\* provider call in the pool while it awaits a translation, and none otherwise.
C11_CallsTotallyOrdered ==
    /\ IF pc \in TranslatePcs
       THEN \/ work_queue = <<ThisBatch>> /\ executing = {} /\ future = <<>>
            \/ work_queue = <<>> /\ executing = {ThisBatch} /\ future = <<>>
            \/ work_queue = <<>> /\ executing = {} /\ future # <<>>
       ELSE work_queue = <<>> /\ executing = {} /\ future = <<>>
    /\ \A k \in 1..(Len(log) - 1) : log[k].item <= log[k + 1].item
    /\ \A k \in LogIdx : log[k].item <= (IF pc = "done" THEN Len(todo) ELSE idx)
    /\ \A i \in 1..Len(todo) :
          /\ IsPrefix(SigsOf(i), ExpectedCalls(todo[i]))
          /\ (i <= Len(results) /\ results[i].status = "success") =>
                SigsOf(i) = ExpectedCalls(todo[i])

\* C11 witness: a batch of two documents, the first with properties (listed
\* by the store with the rich text before the title) and two blocks that carry
\* text (the translation of the second comes after the update of the first),
\* has processed both.
C11_Witness ==
    /\ pc = "done"
    /\ Len(todo) = 2
    /\ todo[1] = 1
    /\ TextKeys(1) = <<"Desc", "Name">>
    /\ results[1].status = "success"
    /\ results[2].status = "success"
    /\ \E j, k \in CallsOf(1) :
          /\ j < k
          /\ log[j].op = "update_block" /\ log[j].block_id = 11
          /\ log[k].op = "translate" /\ log[k].block_id = 14

\* the item-th id of the batch had a call that failed
HasFailedCall(item) == \E k \in CallsOf(item) : ~log[k].ok

\* after a failed call of an item no other call is made for that item and the
\* item's outcome is an error; a success outcome has no failed call
NoCallAfterFailure ==
    /\ \A k \in LogIdx :
          (log[k].item >= 1 /\ ~log[k].ok) =>
              \A j \in CallsOf(log[k].item) : j <= k
    /\ \A i \in 1..Len(results) :
          HasFailedCall(i) <=> results[i].status = "error"

\* C13 (as claimed): once a step of a document's processing has failed the
\* outcome is an error, no further call is made for that document, and the
\* document is not processed a second time in the same batch.
C13_FailedDocumentNeverProcessedAgain ==
    /\ NoCallAfterFailure
    /\ \A i, j \in 1..Len(todo) :
          (i < j /\ todo[i] = todo[j] /\ HasFailedCall(i)) => CallsOf(j) = {}

\* C13 (amended): once a step of the processing of an id has failed the outcome
\* of that id is an error and no further call is made for it: no retry, no
\* write of the block being translated, no later block. Each id of the batch is
\* processed once (one retrieve, of that id); runAuto's ids are distinct, so
\* there a failed document is not processed again, while runManual processes a
\* document again when its id occurs again in page_ids.
C13_NoCallAfterFailureOfAnId ==
    /\ NoCallAfterFailure
    /\ \A i \in 1..Len(todo) :
          LET calls == CallsOf(i)
          IN  /\ Cardinality({ k \in calls : log[k].op = "retrieve" }) <= 1
              /\ \A k \in calls : log[k].page_id = todo[i]
    /\ mode = "auto" =>
          \A i, j \in 1..Len(todo) : todo[i] = todo[j] => i = j

\* C13 witness: the translation of a run of block 11 failed and the batch went
\* on to its next id.
C13_Witness ==
    \E i \in 1..Len(results) :
        /\ i < Len(todo)
        /\ \E k \in CallsOf(i) :
              log[k].op = "translate" /\ log[k].block_id = 11 /\ ~log[k].ok
        /\ CallsOf(i + 1) # {}

\* document d has no title or rich_text property with a non-empty run list and
\* no child block of an allow-listed kind
NothingTranslatable(d) ==
    LET props == InitialContentProps(d)
        bs == InitialBlocks(d)
    IN  /\ \A n \in DOMAIN props :
              /\ props[n].type = "title" => Len(props[n].title) = 0
              /\ props[n].type = "rich_text" => Len(props[n].rich_text) = 0
        /\ \A k \in 1..Len(bs) : OtherKind(bs[k])

\* C14: a document with no translatable property and no allow-listed block is
\* processed without provider call, property-content update or block update;
\* when its store calls succeed it receives the final update and its outcome
\* is success, its content being what it was.
C14_EmptyDocumentStampedOnly ==
    \A i \in 1..Len(todo) :
        NothingTranslatable(todo[i]) =>
            /\ \A k \in CallsOf(i) :
                  log[k].op \in {"retrieve", "list_children", "stamp"}
            /\ store[todo[i]].blocks = InitialBlocks(todo[i])
            /\ LET props == InitialContentProps(todo[i])
               IN  \A n \in DOMAIN props : store[todo[i]].properties[n] = props[n]
            /\ (i <= Len(results) /\ ~HasFailedCall(i)) =>
                  /\ results[i] = Success(todo[i])
                  /\ \E k \in CallsOf(i) :
                        /\ log[k].op = "stamp"
                        /\ log[k].properties = StampProperties(to_lang)
                  /\ StatusNameOf(store[todo[i]].properties) = "Traduit"

\* C14 witness: such a document was processed with success.
C14_Witness ==
    \E i \in 1..Len(results) :
        /\ NothingTranslatable(todo[i])
        /\ results[i].status = "success"
        /\ Cardinality(CallsOf(i)) = 3

RECURSIVE PlainTextUpTo(_, _)
\* the plain text of the first k runs, concatenated in order
PlainTextUpTo(runs, k) ==
    IF k = 0 THEN <<>> ELSE PlainTextUpTo(runs, k - 1) \o runs[k].plain_text

\* the single run that replaces a property's runs
SingleRun(text) == << [text |-> [content |-> ProviderText(text, "fr", to_lang)]] >>

\* what translate_page has to stage for a page with these properties
ExpectedStaged(props) ==
    LET names == { n \in DOMAIN props :
                     \/ props[n].type = "title" /\ Len(props[n].title) > 0
                     \/ props[n].type = "rich_text" /\ Len(props[n].rich_text) > 0 }
    IN  [n \in names |->
            IF props[n].type = "title"
            THEN [title |-> SingleRun(props[n].title[1].plain_text)]
            ELSE [rich_text |->
                    SingleRun(PlainTextUpTo(props[n].rich_text,
                                            Len(props[n].rich_text)))]]

\* the property-content updates issued for the item-th id
PropertyUpdatesOf(item) == { k \in CallsOf(item) : log[k].op = "update_properties" }

\* C17: translate_page stages a replacement for exactly the title and rich_text
\* properties with a non-empty run list: a single run with the translation of
\* the first run's text for a title, of the concatenation of all runs' text
\* for a rich_text; when something is staged exactly one property-content
\* update is issued, carrying exactly the staged properties, and none otherwise.
C17_StagedPropertiesAndOneUpdate ==
    /\ pc = "update_properties" =>
          /\ updated_properties = ExpectedStaged(page.properties)
          /\ DOMAIN updated_properties # {}
          /\ PropertyUpdatesOf(idx) = {}
    /\ pc \in {"list_children", "translate_run", "update_block", "stamp"} =>
          IF DOMAIN ExpectedStaged(page.properties) = {}
          THEN PropertyUpdatesOf(idx) = {}
          ELSE /\ Cardinality(PropertyUpdatesOf(idx)) = 1
               /\ \A k \in PropertyUpdatesOf(idx) :
                     log[k].ok /\ log[k].properties = ExpectedStaged(page.properties)
    /\ \A i \in 1..Len(todo) :
          LET calls == CallsOf(i)
              updates == { k \in calls : log[k].op = "update_properties" }
              translations == { c \in calls : log[c].op = "translate" /\ log[c].prop # "" }
          IN  /\ Cardinality(updates) <= 1
              /\ \A k \in updates :
                    /\ DOMAIN log[k].properties = { log[j].prop : j \in translations }
                    /\ \A j \in translations :
                          /\ j < k
                          /\ log[j].ok
                          /\ log[k].properties[log[j].prop] \in
                                { [title |-> SingleRun(log[j].text)],
                                  [rich_text |-> SingleRun(log[j].text)] }

\* C17 witness: the title (two runs) and the rich text (two runs) of document 1
\* were staged and written by one update.
C17_Witness ==
    /\ pc = "list_children"
    /\ Cur = 1
    /\ \E k \in PropertyUpdatesOf(idx) :
          /\ log[k].properties["Name"].title[1].text.content = <<to_lang, "a">>
          /\ log[k].properties["Desc"].rich_text[1].text.content = <<to_lang, "c", "d">>

\* the calls that write to the store
WriteOps == {"update_properties", "update_block", "stamp"}

\* the retrieve or a property translation of the item-th id failed
FailedBeforeWrites(item) ==
    \E k \in CallsOf(item) :
        /\ ~log[k].ok
        /\ \/ log[k].op = "retrieve"
           \/ log[k].op = "translate" /\ log[k].prop # ""

\* document d is as it was when the batch started
AsInitially(d) ==
    /\ store[d].blocks = InitialBlocks(d)
    /\ \E s \in StatutChoices(d) : store[d].properties = InitialProperties(d, s)

\* C18: when the retrieve or a property translation fails, no write call is
\* made for that document; every property translation comes before the first
\* write, and a document for which no write call was made has its properties,
\* blocks and status/language metadata unchanged.
C18_NoWriteAfterEarlyFailure ==
    /\ \A i \in 1..Len(todo) :
          LET calls == CallsOf(i)
              writes == { k \in calls : log[k].op \in WriteOps }
          IN  /\ FailedBeforeWrites(i) => writes = {}
              /\ \A k \in writes : \A j \in calls :
                    (log[j].op = "translate" /\ log[j].prop # "") => j < k
    /\ \A d \in DocIds :
          (\A k \in LogIdx : log[k].page_id = d => log[k].op \notin WriteOps)
              => AsInitially(d)

\* C18 witness: the translation of the second property of document 1 failed
\* and the document has its error outcome.
C18_Witness ==
    \E i \in 1..Len(results) :
        /\ results[i].status = "error"
        /\ \E k \in CallsOf(i) :
              log[k].op = "translate" /\ log[k].prop = "Desc" /\ ~log[k].ok

\* the call the batch is waiting for at each position
AwaitedOp ==
    [query |-> "query", retrieve |-> "retrieve", translate_prop |-> "translate",
     update_properties |-> "update_properties", list_children |-> "list_children",
     translate_run |-> "translate", update_block |-> "update_block",
     stamp |-> "stamp"]

\* C20: when every store and provider call eventually returns, a batch that
\* was started eventually returns (its outcomes, or the listing's error); and
\* a started batch moves only when the call it is waiting for has returned:
\* a step that changes the batch records the return of the awaited call (for
\* a translation, the worker has handed over its result before), and while
\* the provider call is queued or executing the only steps are a worker
\* taking the call and the call ending in the worker, which leave the batch
\* where it is.
C20_BatchReturnsWhenCallsReturn ==
    /\ (pc # "idle") ~> (pc \in {"done", "raised", "rejected"})
    /\ [][pc # "idle" =>
            \/ /\ pc \in DOMAIN AwaitedOp
               /\ pc \in TranslatePcs => future # <<>>
               /\ Len(log') = Len(log) + 1
               /\ log'[Len(log')].op = AwaitedOp[pc]
               /\ SubSeq(log', 1, Len(log)) = log
            \/ /\ pc \in TranslatePcs
               /\ future = <<>>
               /\ \/ work_queue = <<ThisBatch>> /\ executing' = {ThisBatch} /\ future' = <<>>
                  \/ executing = {ThisBatch} /\ executing' = {} /\ future' # <<>>
               /\ UNCHANGED << pc, idx, todo, results, locals, store, log >>]_vars

\* C20 witness: an automatic batch whose listing took two queries has returned
\* the outcomes of two documents, after provider calls that went through the
\* pool.
C20_Witness ==
    /\ pc = "done"
    /\ mode = "auto"
    /\ page_size = 1
    /\ Len(results) = 2
    /\ \E k \in LogIdx : log[k].op = "translate" /\ log[k].ok

\* a lowercase hexadecimal digit
LowerHexDigit(c) ==
    c \in {"0", "1", "2", "3", "4", "5", "6", "7", "8", "9",
           "a", "b", "c", "d", "e", "f"}

\* the positions of a locator where 32 lowercase hexadecimal digits start
HexWindows(url) ==
    { p \in 1..(Len(url) - 31) : \A i \in p..(p + 31) : LowerHexDigit(url[i]) }

\* the 32 characters of a locator from position p
WindowAt(url, p) == [i \in 1..32 |-> url[p + i - 1]]

\* C15: runAuto with a locator that has no run of 32 lowercase hexadecimal
\* digits raises the invalid-locator error before any store or provider call:
\* nothing is listed, read, translated or written. (The HTTP handler does not
\* enter runAuto for an empty locator: it answers 400, without any call.)
C15_InvalidLocatorFailsBeforeAnyCall ==
    (mode = "auto" /\ HexWindows(database_url) = {}) =>
        /\ \/ pc = "raised" /\ raised = [msg |-> INVALID_URL]
           \/ pc = "rejected" /\ database_url = <<>>
        /\ database_id = <<>>
        /\ log = <<>>
        /\ pages = <<>> /\ all_pages = <<>> /\ todo = <<>> /\ results = <<>>
        /\ store \in InitialStores

\* C15 witness: an automatic request whose locator is 32 uppercase hex digits.
C15_Witness ==
    /\ mode = "auto"
    /\ database_url = [i \in 1..32 |-> "A"]
    /\ pc = "raised"

\* C16 (as claimed): for every 32-hex-character identifier embedded in the
\* locator, extract_database_id returns exactly that identifier.
C16_ReturnsEveryEmbeddedId ==
    pc \in {"extracted", "raised"} =>
        \A p \in HexWindows(database_url) :
            pc = "extracted" /\ database_id = WindowAt(database_url, p)

\* C16 (amended): extract_database_id returns the leftmost 32 consecutive
\* lowercase hexadecimal digits of the locator (the embedded identifier when
\* there is only one), and raises the invalid-locator error when there are none.
C16_ReturnsLeftmostEmbeddedId ==
    pc \in {"extracted", "raised"} =>
        IF HexWindows(database_url) = {}
        THEN pc = "raised" /\ raised = [msg |-> INVALID_URL] /\ database_id = <<>>
        ELSE /\ pc = "extracted"
             /\ raised = None
             /\ \E p \in HexWindows(database_url) :
                   /\ \A q \in HexWindows(database_url) : p <= q
                   /\ database_id = WindowAt(database_url, p)

\* C16 witness: an id was extracted from a locator in which two different
\* identifiers are embedded.
C16_Witness ==
    /\ pc = "extracted"
    /\ \E p, q \in HexWindows(database_url) :
          WindowAt(database_url, p) # WindowAt(database_url, q)

\* the documents whose outcome in the first run was success
DoneInFirstRun ==
    { first_run.results[i].page_id :
        i \in { j \in 1..Len(first_run.results) :
                  first_run.results[j].status = "success" } }

\* C19: when runAuto is run again after it returned, every document whose
\* outcome in the first run was success has status "Traduit", is not among the
\* pending documents of the second run, is not retrieved, translated or
\* written again, and stays as the first run left it.
C19_SecondRunSkipsCompleted ==
    first_run # None =>
        \A d \in DoneInFirstRun :
            /\ StatusNameOf(store[d].properties) = "Traduit"
            /\ \A j \in 1..Len(todo) : todo[j] # d
            /\ \A k \in LogIdx : log[k].page_id # d
            /\ \A j \in 1..Len(results) : results[j].page_id # d
            /\ store[d] = first_run.store[d]

\* C19 witness: the second run has returned, having processed a document the
\* first run failed on, after a first run that completed another document.
C19_Witness ==
    /\ first_run # None
    /\ DoneInFirstRun # {}
    /\ pc = "done"
    /\ Len(results) >= 1

\* C12: at every instant at most 5 provider calls are executing, however many
\* batches of the process have a translation outstanding.
C12_AtMostFiveProviderCalls ==
    /\ Cardinality(executing) <= 5
    /\ \A b \in executing : ~InQueue(b)

\* C12 witness: five provider calls are executing while a sixth batch waits
\* for a worker.
C12_Witness ==
    /\ Cardinality(executing) = 5
    /\ Len(work_queue) >= 1

====
